---- MODULE Spec2Model ----
(***************************************************************************)
(* The Post/Media HTTP API of function_app.py as a state machine.          *)
(*                                                                         *)
(* The blob container and the two Cosmos containers ("media", "posts") are *)
(* the shared state.  Every HTTP request runs in a request slot; a handler *)
(* is cut into one step per store call, so that the steps of concurrent    *)
(* requests interleave the way the hosting runtime lets them.  Every store *)
(* call may raise (a store fault), and raises as the SDK does when the     *)
(* addressed item is absent.  The response a handler returns is kept in    *)
(* last until the next response is sent.                                   *)
(***************************************************************************)
EXTENDS Naturals, Sequences, FiniteSets

\* ---------------------------------------------------------------- bounds
NumReqs  == 2   \* request slots: how many requests run at the same time
MaxRefs  == 2   \* longest "media" list of a createPost body
MaxCalls == 3   \* requests received in one behaviour

Reqs         == 1..NumReqs
NoUser       == "none"                 \* an absent userId parameter
Users        == {"u1", "u2"}
ContentTypes == {"image/png"}
FileName     == "a.png"
Title        == "T"
Bogus        == 0                      \* an id no uuid4() call ever returned

VARIABLES
    blobs,      \* names of the blobs in the blob container
    media,      \* documents of the media container
    posts,      \* documents of the posts container
    nextMedia,  \* the next media id uuid4() returns
    nextPost,   \* the next post id uuid4() returns
    now,        \* the last reading of datetime.now(timezone.utc)
    req,        \* per slot: the request in flight
    last,       \* the response sent last, with the request it answers
    calls,      \* requests received so far
    written,    \* history: every media document ever upserted
    blobGone,   \* history: media ids whose blob a deleteMedia call deleted
    blobFailed, \* history: <<userId, mediaId>> of deleteMedia calls failed at the blob delete
    dangling,   \* history: <<userId, mediaId>> whose document delete failed after the blob delete
    deleted,    \* history: <<kind, userId, id>> of delete calls answered 204
    count204    \* history: per media id, the deleteMedia calls answered 204

vars == <<blobs, media, posts, nextMedia, nextPost, now, req, last, calls,
          written, blobGone, blobFailed, dangling, deleted, count204>>

stores == <<blobs, media, posts>>
hist   == <<written, blobGone, blobFailed, dangling, deleted, count204>>

\* ------------------------------------------------------------ store calls

\* a read that looks in every partition
ReadItemAnyPartition(coll, item, pk) == {d \in coll : d.id = item}

\* container.read_item(item, partition_key): the documents it can return
ReadItem(coll, item, pk) == {d \in coll : d.id = item /\ d.userId = pk}

\* an upload that stores nothing
UploadBlobLost(bs, name) == bs

\* blob_client.upload_blob(data, overwrite=True)
UploadBlob(bs, name) == bs \cup {name}

\* a delete that does not mind an absent target
DeleteRaisesIdem(present, fault) == fault

\* delete_item / delete_blob raise when the store faults or the target is absent
DeleteRaises(present, fault) == fault \/ ~present

\* f"{user_id}/{media_id}-{file_name}"
BlobName(u, id, fn) == <<u, id, fn>>

\* the MediaItem document uploadMedia builds
MediaDoc(u, id, ct) ==
    [id |-> id, userId |-> u, fileName |-> FileName, contentType |-> ct,
     blobName |-> BlobName(u, id, FileName)]

\* the MediaRef createPost snapshots from a media document
MediaRef(d) == [mediaId |-> d.id, blobName |-> d.blobName, contentType |-> d.contentType]

\* container.upsert_item(doc)
Upsert(coll, doc) == (coll \ ReadItem(coll, doc.id, doc.userId)) \cup {doc}

\* user u has a MediaItem document with id m
Owns(u, m) == \E d \in media : d.id = m /\ d.userId = u

\* ------------------------------------------------------------ request slots

Idle ==
    [pc |-> "idle", op |-> "none", user |-> NoUser, id |-> Bogus, list |-> <<>>,
     refs |-> <<>>, body |-> <<>>, blob |-> <<>>, status |-> 0, threw |-> "none",
     late |-> FALSE, retry |-> FALSE, afterDangling |-> FALSE, hadMissing |-> FALSE]

\* a request is received: it takes the first slot that runs no request
Vacant(r) == req[r].pc = "idle"
Free(r) == Vacant(r) /\ calls < MaxCalls /\ \A x \in Reqs : x < r => ~Vacant(x)

\* the response is sent and the locals of the handler are gone: what is left
\* is the status, the body of a 2xx response, and the request it answers
Respond(q, code) ==
    [q EXCEPT !.pc = "done", !.status = code, !.refs = <<>>, !.blob = <<>>,
              !.body = IF code \in {200, 201} THEN @ ELSE <<>>]

\* the handler of slot r returns a response
Send(r, q, code) ==
    /\ last' = Respond(q, code)
    /\ req' = [req EXCEPT ![r] = Idle]

\* the handler of slot r goes on to its next store call
Continue(r, q) ==
    /\ req' = [req EXCEPT ![r] = q]
    /\ UNCHANGED last

\* responses sent so far
Responses == calls - Cardinality({r \in Reqs : req[r].pc # "idle"})

Init ==
    /\ blobs = {} /\ media = {} /\ posts = {}
    /\ nextMedia = 1 /\ nextPost = 1 /\ now = 0
    /\ req = [r \in Reqs |-> Idle]
    /\ last = Idle
    /\ calls = 0
    /\ written = {} /\ blobGone = {} /\ blobFailed = {} /\ dangling = {}
    /\ deleted = {} /\ count204 = [m \in 1..MaxCalls |-> 0]

\* datetime.now(timezone.utc): the clock has stood still since the last
\* reading, or has advanced
Times == {now, now + 1}

\* ------------------------------------------------------------ uploadMedia

\* lines 23-41: validation, uuid4(), blob name, upload_blob(overwrite=True).
\* No handler catches what upload_blob, upsert_item, create_item or
\* query_items raise: the runtime answers 500.
UploadMedia(r, u, ct) ==
    /\ Free(r)
    /\ calls' = calls + 1
    /\ LET q == [Idle EXCEPT !.op = "uploadMedia", !.user = u] IN
       IF u = NoUser
       THEN /\ Send(r, q, 400)
            /\ UNCHANGED <<blobs, nextMedia>>
       ELSE /\ nextMedia' = nextMedia + 1
            /\ \E fault \in BOOLEAN :
                 IF fault
                 THEN /\ Send(r, [q EXCEPT !.threw = "upload_blob"], 500)
                      /\ UNCHANGED blobs
                 ELSE /\ blobs' = UploadBlob(blobs, BlobName(u, nextMedia, FileName))
                      /\ Continue(r, [q EXCEPT !.pc = "upsert", !.id = nextMedia,
                                               !.body = <<MediaDoc(u, nextMedia, ct)>>])
    /\ UNCHANGED <<media, posts, nextPost, now, hist>>

\* lines 43-59: upsert_item(doc), 201
UploadUpsert(r) ==
    /\ req[r].pc = "upsert"
    /\ \E fault \in BOOLEAN :
         IF fault
         THEN /\ Send(r, [req[r] EXCEPT !.threw = "upsert_item"], 500)
              /\ UNCHANGED <<media, written>>
         ELSE /\ media' = Upsert(media, req[r].body[1])
              /\ written' = written \cup {req[r].body[1]}
              /\ Send(r, req[r], 201)
    /\ UNCHANGED <<blobs, posts, nextMedia, nextPost, now, calls,
                   blobGone, blobFailed, dangling, deleted, count204>>

\* ------------------------------------------------------------ createPost

\* the media ids and post ids a client can name: a made-up one, or one it was given
KnownMedia == {Bogus} \cup {d.id : d \in written}
KnownPosts == {Bogus} \cup {p.id : p \in posts} \cup {k[3] : k \in {x \in deleted : x[1] = "post"}}

MediaLists == UNION {[1..n -> KnownMedia] : n \in 0..MaxRefs}

\* lines 89-97: the post document
PostDoc(q, id, t) ==
    [id |-> id, userId |-> q.user, title |-> Title, caption |-> "",
     media |-> q.refs, createdAt |-> t]

\* a reference put in front of the list
AppendRefPrepend(refs, d) == <<MediaRef(d)>> \o refs

\* lines 83-87: media_refs.append(...)
AppendRef(refs, d) == Append(refs, MediaRef(d))

\* lines 77-87: one pass of the loop over the media list.  Lines 89-97 follow
\* the last pass at once: uuid4() returns pid, the clock reads t
Lookup(q, fault, pid, t) ==
    LET m     == q.list[Len(q.refs) + 1]
        found == ReadItem(media, m, q.user)
    IN  IF fault \/ found = {}
        THEN Respond([q EXCEPT !.threw = "read_item", !.id = m], 404)
        ELSE LET p == [q EXCEPT !.refs = AppendRef(q.refs, CHOOSE d \in found : TRUE)] IN
             IF Len(p.refs) = Len(q.list)
             THEN [p EXCEPT !.pc = "write", !.id = pid, !.body = <<PostDoc(p, pid, t)>>]
             ELSE [p EXCEPT !.pc = "lookup"]

\* line 96 runs, and the clock is read, only behind the last pass of the loop
ClockReads(q, fault) ==
    IF Lookup(q, fault, 0, 0).pc = "write" THEN Times ELSE {now}

\* the handler of slot r after a pass of the loop
AfterLookup(r, p) ==
    /\ IF p.pc = "done" THEN Send(r, p, 404) ELSE Continue(r, p)
    /\ nextPost' = IF p.pc = "write" THEN nextPost + 1 ELSE nextPost
    /\ now' = IF p.pc = "write" THEN p.body[1].createdAt ELSE now

\* lines 63-79: the body is parsed and the first media id, if any, looked up.
\* The bodies drawn are JSON objects with a userId and a title: a body that
\* is not JSON is answered 400 at line 66 before any store is touched.
CreatePost(r, u, list) ==
    /\ Free(r)
    /\ calls' = calls + 1
    /\ LET q == [Idle EXCEPT !.op = "createPost", !.user = u, !.list = list,
                             !.hadMissing = \E i \in 1..Len(list) : ~Owns(u, list[i])]
       IN  IF list = <<>>
           THEN \E t \in Times :
                  AfterLookup(r, [q EXCEPT !.pc = "write", !.id = nextPost,
                                           !.body = <<PostDoc(q, nextPost, t)>>])
           ELSE \E fault \in BOOLEAN : \E t \in ClockReads(q, fault) :
                  AfterLookup(r, Lookup(q, fault, nextPost, t))
    /\ UNCHANGED <<blobs, media, posts, nextMedia, hist>>

\* lines 77-87: the next media id is looked up
CreatePostLookup(r) ==
    /\ req[r].pc = "lookup"
    /\ \E fault \in BOOLEAN : \E t \in ClockReads(req[r], fault) :
         AfterLookup(r, Lookup(req[r], fault, nextPost, t))
    /\ UNCHANGED <<blobs, media, posts, nextMedia, calls, hist>>

\* lines 99-106: create_item(post_doc), 201
CreatePostWrite(r) ==
    /\ req[r].pc = "write"
    /\ \E fault \in BOOLEAN :
         IF fault \/ ReadItem(posts, req[r].id, req[r].user) # {}
         THEN /\ Send(r, [req[r] EXCEPT !.threw = "create_item"], 500)
              /\ UNCHANGED posts
         ELSE /\ posts' = posts \cup {req[r].body[1]}
              /\ Send(r, req[r], 201)
    /\ UNCHANGED <<blobs, media, nextMedia, nextPost, now, calls, hist>>

\* ------------------------------------------------------------ deletePost

\* lines 176-190: validation, delete_item(post_id, user_id); any exception is a 404
DeletePost(r, u, pid) ==
    /\ Free(r)
    /\ calls' = calls + 1
    /\ LET q == [Idle EXCEPT !.op = "deletePost", !.user = u, !.id = pid,
                             !.late = <<"post", u, pid>> \in deleted]
           found == ReadItem(posts, pid, u)
       IN  IF u = NoUser
           THEN /\ Send(r, q, 400)
                /\ UNCHANGED <<posts, deleted>>
           ELSE \E fault \in BOOLEAN :
                  IF DeleteRaises(found # {}, fault)
                  THEN /\ Send(r, [q EXCEPT !.threw = "delete_item"], 404)
                       /\ UNCHANGED <<posts, deleted>>
                  ELSE /\ posts' = posts \ found
                       /\ deleted' = deleted \cup {<<"post", u, pid>>}
                       /\ Send(r, q, 204)
    /\ UNCHANGED <<blobs, media, nextMedia, nextPost, now,
                   written, blobGone, blobFailed, dangling, count204>>

\* ------------------------------------------------------------ deleteMedia

\* lines 195-210: validation, read_item(media_id, user_id), the blobName check
DeleteMedia(r, u, mid) ==
    /\ Free(r)
    /\ calls' = calls + 1
    /\ LET q == [Idle EXCEPT !.op = "deleteMedia", !.user = u, !.id = mid,
                             !.late = <<"media", u, mid>> \in deleted,
                             !.retry = <<u, mid>> \in blobFailed,
                             !.afterDangling = <<u, mid>> \in dangling]
           found == ReadItem(media, mid, u)
       IN  IF u = NoUser
           THEN Send(r, q, 400)
           ELSE \E fault \in BOOLEAN :
                  IF fault \/ found = {}
                  THEN Send(r, [q EXCEPT !.threw = "read_item"], 404)
                  ELSE LET doc == CHOOSE d \in found : TRUE IN
                       IF doc.blobName = <<>>
                       THEN Send(r, q, 500)
                       ELSE Continue(r, [q EXCEPT !.pc = "delBlob", !.blob = doc.blobName])
    /\ UNCHANGED <<blobs, media, posts, nextMedia, nextPost, now, hist>>

\* a blob delete whose failure takes the document away
DeleteMediaBlobDropsDoc(r) ==
    /\ req[r].pc = "delBlob"
    /\ \E fault \in BOOLEAN :
         IF DeleteRaises(req[r].blob \in blobs, fault)
         THEN /\ Send(r, [req[r] EXCEPT !.threw = "delete_blob"], 500)
              /\ blobFailed' = blobFailed \cup {<<req[r].user, req[r].id>>}
              /\ media' = media \ ReadItem(media, req[r].id, req[r].user)
              /\ UNCHANGED <<blobs, blobGone>>
         ELSE /\ blobs' = blobs \ {req[r].blob}
              /\ blobGone' = blobGone \cup {req[r].id}
              /\ Continue(r, [req[r] EXCEPT !.pc = "delDoc"])
              /\ UNCHANGED <<blobFailed, media>>
    /\ UNCHANGED <<posts, nextMedia, nextPost, now, calls,
                   written, dangling, deleted, count204>>

\* lines 212-220: delete_blob(); an exception is a 500 and the document stays
DeleteMediaBlob(r) ==
    /\ req[r].pc = "delBlob"
    /\ \E fault \in BOOLEAN :
         IF DeleteRaises(req[r].blob \in blobs, fault)
         THEN /\ Send(r, [req[r] EXCEPT !.threw = "delete_blob"], 500)
              /\ blobFailed' = blobFailed \cup {<<req[r].user, req[r].id>>}
              /\ UNCHANGED <<blobs, blobGone>>
         ELSE /\ blobs' = blobs \ {req[r].blob}
              /\ blobGone' = blobGone \cup {req[r].id}
              /\ Continue(r, [req[r] EXCEPT !.pc = "delDoc"])
              /\ UNCHANGED blobFailed
    /\ UNCHANGED <<media, posts, nextMedia, nextPost, now, calls,
                   written, dangling, deleted, count204>>

\* lines 222-228: delete_item(media_id, user_id); an exception is a 500, else 204
DeleteMediaDoc(r) ==
    /\ req[r].pc = "delDoc"
    /\ LET found == ReadItem(media, req[r].id, req[r].user) IN
       \E fault \in BOOLEAN :
         IF DeleteRaises(found # {}, fault)
         THEN /\ Send(r, [req[r] EXCEPT !.threw = "delete_item"], 500)
              /\ dangling' = dangling \cup {<<req[r].user, req[r].id>>}
              /\ UNCHANGED <<media, deleted, count204>>
         ELSE /\ media' = media \ found
              /\ deleted' = deleted \cup {<<"media", req[r].user, req[r].id>>}
              /\ count204' = [count204 EXCEPT ![req[r].id] = @ + 1]
              /\ Send(r, req[r], 204)
              /\ UNCHANGED dangling
    /\ UNCHANGED <<blobs, posts, nextMedia, nextPost, now, calls,
                   written, blobGone, blobFailed>>

\* ------------------------------------------------------------ getPosts, getAllPosts

\* the orders in which a container scan can meet the documents of S
Scans(S) == {f \in [1..Cardinality(S) -> S] : \A i, j \in DOMAIN f : i # j => f[i] # f[j]}

\* a query with no WHERE clause
WhereUserIdAny(coll, u) == coll

\* WHERE c.userId = @userId
WhereUserId(coll, u) == {c \in coll : c.userId = u}

\* ORDER BY c.createdAt DESC: x goes behind the documents that are not older
InsertDesc(x, s) ==
    LET k == Cardinality({i \in 1..Len(s) : s[i].createdAt >= x.createdAt})
    IN  SubSeq(s, 1, k) \o <<x>> \o SubSeq(s, k + 1, Len(s))

RECURSIVE OrderByCreatedAtDesc(_)
OrderByCreatedAtDesc(s) ==
    IF s = <<>> THEN <<>>
    ELSE InsertDesc(s[Len(s)], OrderByCreatedAtDesc(SubSeq(s, 1, Len(s) - 1)))

\* lines 111-130: validation, the partition query, 200
GetPosts(r, u) ==
    /\ Free(r)
    /\ calls' = calls + 1
    /\ LET q == [Idle EXCEPT !.op = "getPosts", !.user = u] IN
       IF u = NoUser
       THEN Send(r, q, 400)
       ELSE \E fault \in BOOLEAN :
              IF fault
              THEN Send(r, [q EXCEPT !.threw = "query_items"], 500)
              ELSE \E scan \in Scans(WhereUserId(posts, u)) :
                     Send(r, [q EXCEPT !.body = OrderByCreatedAtDesc(scan)], 200)
    /\ UNCHANGED <<blobs, media, posts, nextMedia, nextPost, now, hist>>

\* lines 135-148: the cross-partition query, 200
GetAllPosts(r) ==
    /\ Free(r)
    /\ calls' = calls + 1
    /\ LET q == [Idle EXCEPT !.op = "getAllPosts"] IN
       \E fault \in BOOLEAN :
         IF fault
         THEN Send(r, [q EXCEPT !.threw = "query_items"], 500)
         ELSE \E scan \in Scans(posts) :
                Send(r, [q EXCEPT !.body = OrderByCreatedAtDesc(scan)], 200)
    /\ UNCHANGED <<blobs, media, posts, nextMedia, nextPost, now, hist>>

\* ------------------------------------------------------------ the service

\* the users are interchangeable: the one of the first request is called u1
Callers == IF calls = 0 THEN {"u1"} ELSE Users

Next ==
    \/ \E r \in Reqs, u \in Callers \cup {NoUser}, ct \in ContentTypes : UploadMedia(r, u, ct)
    \/ \E r \in Reqs : UploadUpsert(r)
    \/ \E r \in Reqs, u \in Callers, list \in MediaLists : CreatePost(r, u, list)
    \/ \E r \in Reqs : CreatePostLookup(r)
    \/ \E r \in Reqs : CreatePostWrite(r)
    \/ \E r \in Reqs, u \in Callers \cup {NoUser}, pid \in KnownPosts : DeletePost(r, u, pid)
    \/ \E r \in Reqs, u \in Callers \cup {NoUser}, mid \in KnownMedia : DeleteMedia(r, u, mid)
    \/ \E r \in Reqs : DeleteMediaBlob(r)
    \/ \E r \in Reqs : DeleteMediaDoc(r)
    \/ \E r \in Reqs, u \in Callers \cup {NoUser} : GetPosts(r, u)
    \/ \E r \in Reqs : GetAllPosts(r)

Spec == Init /\ [][Next]_vars

\* ------------------------------------------------------------ properties

\* a response is sent in this step; it is last'
Sent == Responses' # Responses

\* slot r takes this step
Steps(r) == req'[r] # req[r]

\* the document of user u with id m is in coll
Has(coll, u, m) == \E d \in coll : d.id = m /\ d.userId = u

\* C1: a createPost call that names a media id with no document in the
\* caller's partition is answered 404, and no step of it changes the posts
\* collection, wherever the id stands in the list.
C1_MissingMediaIs404 ==
    [][ /\ \A r \in Reqs : (req[r].hadMissing /\ Steps(r)) => posts' = posts
        /\ (Sent /\ last'.op = "createPost" /\ last'.hadMissing)
              => (last'.status = 404 /\ posts' = posts) ]_vars

\* the second id of the list fails after the first was looked up
C1_Witness ==
    /\ last.op = "createPost" /\ last.hadMissing /\ last.status = 404
    /\ Len(last.list) = 2 /\ last.list[1] # last.list[2] /\ last.id = last.list[2]

\* C4: the Post of a 201 createPost response carries one MediaRef per input
\* id, in the input order, duplicates kept, each with the blobName and the
\* contentType of the MediaItem document of that id; it is the Post stored.
C4_RefsFollowInput ==
    (last.op = "createPost" /\ last.status = 201) =>
        LET p == last.body[1] IN
        /\ Len(p.media) = Len(last.list)
        /\ \A i \in 1..Len(last.list) :
             /\ p.media[i].mediaId = last.list[i]
             /\ \E d \in written :
                  /\ d.id = last.list[i] /\ d.userId = last.user
                  /\ p.media[i].blobName = d.blobName
                  /\ p.media[i].contentType = d.contentType
        /\ p \in posts \/ <<"post", p.userId, p.id>> \in deleted

\* a Post with two different media, the later upload first
C4_Witness ==
    /\ last.op = "createPost" /\ last.status = 201
    /\ Len(last.list) = 2 /\ last.list[1] > last.list[2]
    /\ last.body[1] \in posts

\* s lists exactly the documents of S, the newest first
NewestFirst(s, S) ==
    /\ Len(s) = Cardinality(S)
    /\ {s[i] : i \in 1..Len(s)} = S
    /\ \A i, j \in 1..Len(s) : i < j => s[i].createdAt >= s[j].createdAt

\* C5: a 200 getPosts response lists exactly the stored Posts of the user
\* asked for, by createdAt descending; a 200 getAllPosts response lists every
\* stored Post in that order.
C5_QueriesListStoredPosts ==
    [][ /\ (Sent /\ last'.op = "getPosts" /\ last'.status = 200)
              => NewestFirst(last'.body, {p \in posts : p.userId = last'.user})
        /\ (Sent /\ last'.op = "getAllPosts" /\ last'.status = 200)
              => NewestFirst(last'.body, posts) ]_vars

\* getPosts leaves out the Post of the other user
C5_Witness ==
    /\ last.op = "getPosts" /\ last.status = 200 /\ Len(last.body) = 1
    /\ last.body[1] \in posts
    /\ \E p \in posts : p.userId # last.user

\* C3: a deletePost or deleteMedia call received after a call for the same
\* (userId, id) was answered 204 is answered 404 at its first store call and
\* changes no store.
C3_SecondDeleteIs404 ==
    [][ /\ \A r \in Reqs : ~req'[r].late
        /\ (Sent /\ last'.late) => (last'.status = 404 /\ stores' = stores) ]_vars

C3_Witness ==
    /\ last.op \in {"deletePost", "deleteMedia"} /\ last.late /\ last.status = 404
    /\ last.id # Bogus

\* C10: of the deleteMedia calls for one media id at most one is answered
\* 204; any other is answered 404 from its document read or 500 from its blob
\* or document delete.
C10_AtMostOne204 ==
    /\ \A m \in DOMAIN count204 : count204[m] <= 1
    /\ (last.op = "deleteMedia" /\ last.user # NoUser) =>
          \/ last.status = 204
          \/ last.status = 404 /\ last.threw = "read_item"
          \/ last.status = 500 /\ last.threw \in {"delete_blob", "delete_item"}

\* a call that read the document before the 204 of another call loses
C10_Witness ==
    /\ last.op = "deleteMedia" /\ last.status = 500 /\ ~last.late
    /\ <<"media", last.user, last.id>> \in deleted

\* C9: a MediaItem document whose blob is missing is the document of a media
\* id whose blob a deleteMedia call has deleted (uploadMedia never leaves one).
C9_MissingBlobOnlyByDelete ==
    \A d \in media : d.blobName \notin blobs => d.id \in blobGone

\* a failed upload has left a blob with no document, a deleteMedia call a
\* document with no blob
C9_Witness ==
    /\ \A r \in Reqs : req[r].pc = "idle"
    /\ \E b \in blobs : \A d \in written : d.blobName # b
    /\ \E d \in media : d.blobName \notin blobs

\* the blob delete of slot r raises in this step
BlobDeleteFails(r) == req[r].pc = "delBlob" /\ Steps(r) /\ req'[r].pc = "idle"

\* slot r, whose blob delete did not raise, a call received after a call for
\* the same media failed at its blob delete, takes its last step
RetryPastBlob(r) == req[r].pc = "delDoc" /\ req[r].retry /\ Steps(r)

\* C2 as claimed: when the blob delete fails the call is answered 500 and the
\* media collection is as it was; a later call for the same media whose blob
\* delete does not fail is answered 204 and leaves neither blob nor document.
C2_RetrySucceeds ==
    [][ \A r \in Reqs :
          /\ BlobDeleteFails(r) => (last'.status = 500 /\ media' = media)
          /\ RetryPastBlob(r) =>
                /\ last'.status = 204
                /\ ~Has(media', req[r].user, req[r].id)
                /\ req[r].blob \notin blobs' ]_vars

\* C2, amended: when the blob delete fails the call is answered 500 and the
\* media collection is as it was; a later call for the same media whose blob
\* delete does not fail is answered 204 and leaves neither blob nor document,
\* unless its document delete raises: then it is answered 500 and leaves the
\* document without its blob.
C2_RetrySucceedsUnlessDocDeleteFails ==
    [][ \A r \in Reqs :
          /\ BlobDeleteFails(r) => (last'.status = 500 /\ media' = media)
          /\ RetryPastBlob(r) =>
                \/ /\ last'.status = 204
                   /\ ~Has(media', req[r].user, req[r].id)
                   /\ req[r].blob \notin blobs'
                \/ /\ last'.status = 500 /\ last'.threw = "delete_item"
                   /\ media' = media
                   /\ req[r].blob \notin blobs' ]_vars

\* the retry is answered 204
C2_Witness ==
    /\ last.op = "deleteMedia" /\ last.retry /\ last.status = 204
    /\ ~Has(media, last.user, last.id)
    /\ <<last.user, last.id>> \in blobFailed

\* a document delete that raised behind the blob delete leaves, for good, the
\* document and no blob, and is answered 500
DanglingStays ==
    /\ \A k \in dangling :
         \E d \in media : d.id = k[2] /\ d.userId = k[1] /\ d.blobName \notin blobs
    /\ (last.op = "deleteMedia" /\ last.threw = "delete_item") => last.status = 500

\* C8 as claimed: when the document delete raises behind the blob delete, the call is
\* answered 500 and the document stays, without its blob, for good; a
\* deleteMedia call for that media received later finds the document, fails
\* at the blob delete and is answered 500, not 204 or 404.
C8_DanglingRetryIs500 ==
    /\ DanglingStays
    /\ (last.op = "deleteMedia" /\ last.afterDangling)
          => (last.status = 500 /\ last.threw = "delete_blob")

\* C8, amended: when the document delete raises behind the blob delete, the
\* call is answered 500 and the document stays, without its blob, for good; a
\* deleteMedia call for that media received later is never answered 204: it
\* is answered 500 from its blob delete, or 404 when its own read of the
\* document, which is still there, raises.
C8_DanglingRetryIsNever204 ==
    /\ DanglingStays
    /\ (last.op = "deleteMedia" /\ last.afterDangling) =>
          \/ last.status = 500 /\ last.threw = "delete_blob"
          \/ last.status = 404 /\ last.threw = "read_item"
                                /\ Has(media, last.user, last.id)

\* the later call has failed at the blob delete; the document is still there
C8_Witness ==
    /\ last.op = "deleteMedia" /\ last.afterDangling
    /\ last.status = 500 /\ last.threw = "delete_blob"
    /\ Has(media, last.user, last.id)
    /\ \A d \in media : d.id = last.id => d.blobName \notin blobs

\* C6: when createPost writes the Post, each of its MediaRefs is the
\* reference of a MediaItem document the media collection holds under the
\* same userId.
C6_RefsExistAtWrite ==
    [][ \A r \in Reqs :
          (req[r].pc = "write" /\ Steps(r) /\ posts' # posts) =>
             \A i \in 1..Len(req[r].body[1].media) :
                Has(media, req[r].user, req[r].body[1].media[i].mediaId) ]_vars

\* C7: a stored Post never changes.  The posts collection changes only when
\* createPost adds the Post it built, or when a deletePost call answered 204
\* removes the one Post it names; uploadMedia and deleteMedia never change it.
C7_PostsAreFrozen ==
    [][ /\ \A p \in posts, q \in posts' : (p.id = q.id /\ p.userId = q.userId) => p = q
        /\ posts' # posts =>
             \/ \E r \in Reqs : /\ req[r].op = "createPost" /\ req[r].pc = "write" /\ Steps(r)
                                /\ posts' = posts \cup {req[r].body[1]}
             \/ /\ Sent /\ last'.op = "deletePost" /\ last'.status = 204
                /\ posts' = posts \ {p \in posts : p.id = last'.id /\ p.userId = last'.user}
                /\ Cardinality(posts') = Cardinality(posts) - 1 ]_vars

\* a stored Post still refers to a medium whose document and blob are deleted
C7_Witness ==
    \E p \in posts : \E i \in 1..Len(p.media) :
        /\ <<"media", p.userId, p.media[i].mediaId>> \in deleted
        /\ ~Has(media, p.userId, p.media[i].mediaId)
        /\ p.media[i].blobName \notin blobs

====
